---- MODULE Spec2Model ----
(***************************************************************************)
(* A model of lib/auth: the in-memory authentication/authorization server  *)
(* (InMemoryServer), its identity store, token authority and epoch pruner. *)
(*                                                                         *)
(* Time is counted in whole seconds since the server was constructed.      *)
(* Pointers to User objects are modelled by an explicit heap (uobj); Role  *)
(* and Token objects are never mutated by the package, so a pointer to one *)
(* is modelled by the object's value.  What a call returns is an operator  *)
(* of the state it is made in (CreateUserRet, CheckRoleRet, ...); the      *)
(* action of the call makes the state change that goes with that result.   *)
(***************************************************************************)
EXTENDS Integers, Sequences, FiniteSets, TLC

\* ---------------------------------------------------------------- bounds
\* How many user ids, role ids and tokens a behaviour may hand out.
MaxUserIDs == 2
MaxRoleIDs == 2
MaxTokens == 2
\* How many tokens a behaviour of the identity-store environment may hand out.
MaxLogins == 1

\* ------------------------------------------------------ program constants
MinTokenExpireSec == 60
SecondsPerHour == 3600
MaxInt32 == 2147483647
\* The least int32, -2147483648.
MinInt32 == -MaxInt32 - 1

\* The errors of the package.
Nil == "nil"
ErrInvalidConfig == "ErrInvalidConfig"
ErrInternal == "ErrInternal"
ErrWeakPassword == "ErrWeakPassword"
ErrUserExists == "ErrUserExists"
ErrUserNotExist == "ErrUserNotExist"
ErrInvalidAuth == "ErrInvalidAuth"
ErrRoleExists == "ErrRoleExists"
ErrRoleNotExist == "ErrRoleNotExist"
ErrInvalidToken == "ErrInvalidToken"
\* A Go runtime panic ("assignment to entry in nil map"): the call returns nothing.
Panic == "panic"

\* The empty TokenValue "" (issued token values are 1, 2, ...).
NoToken == 0

\* ------------------------------------------------------------ environments
\* The inputs the operations are called with.  ttls: the values of
\* InMemoryServerConfig.TokenExpireSec handed to the constructor (59 is one
\* the constructor rejects).  instants: the seconds after construction at
\* which calls are made.  maxTokens: how many tokens are handed out.
\*
\* The identity store under many names and passwords, on a short time line.
EnvIdentity ==
    [names |-> {"a", "b"}, pws |-> {"", "p"}, rnames |-> {"r"},
     ttls |-> {59, 60}, instants |-> {0, 61}, maxTokens |-> MaxLogins]

\* For the lifetime ttl: the expiry boundary of a token issued at 0, the
\* boundaries of the first hour windows, the start of the first window in
\* which a bucket of the first window can be evicted, and 121 minutes.
InstantsFor(ttl) ==
    {0, ttl, ttl + 1, 3598, 3599, 7199, (ttl \div 3600 + 2) * 3600 - 1, 7260}

\* The token life cycle on a long time line, with one name and one password.
EnvTokens ==
    [names |-> {"a"}, pws |-> {"p"}, rnames |-> {},
     ttls |-> {59, 60, 1800, 3599, 3600}, instants |-> {}, maxTokens |-> MaxTokens]

\* How far back the package's test moves startedOn (121 minutes), or not at all.
Offsets == {0, 7260}

VARIABLES
    cfg,          \* InMemoryServer.cfg: [TokenExpireSec]
    conv,         \* what this build's float64 -> int32 conversion yields out of range
    users,        \* map[UserID]*User: id -> pointer
    uname,        \* map[string]*User: name -> pointer
    uobj,         \* the User objects the two maps point to: pointer -> User
    roles,        \* map[RoleID]*Role
    rname,        \* map[string]*Role
    tokens,       \* map[TokenValue]*Token
    nextUser,
    nextRole,
    tokenQ,       \* []TokenQueue
    startedOn,    \* [set |-> FALSE, ...] is the zero time.Time
    now,          \* the wall clock, seconds after construction
    issued,       \* history: every token minted so far, by value, the roles
                  \* AddRoleToUser had been asked to add to its user by then,
                  \* and the epoch current when it was minted
    invalidated,  \* history: the issued token values passed to Invalidate
    evicted,      \* history: the token values pruneTokens deleted from the table
    moved,        \* history: the tokens minted before startedOn was written
    granted,      \* history: per live user, the roles AddRoleToUser was asked to add
    uidLog,       \* history: the ids successful CreateUser calls returned
    ridLog        \* history: the ids successful CreateRole calls returned

server == <<cfg, conv, users, uname, uobj, roles, rname, tokens, nextUser,
            nextRole, tokenQ, startedOn>>
history == <<issued, invalidated, evicted, moved, granted, uidLog, ridLog>>
vars == <<server, now, history>>

\* ---------------------------------------------------------------- helpers
Min(S) == CHOOSE x \in S : \A y \in S : x <= y

\* Go's integer division truncates toward zero.
TruncDiv(a, b) == IF a >= 0 THEN a \div b
                  ELSE (a \div b) + (IF a % b = 0 THEN 0 ELSE 1)

\* delete(f, k) for every k in K.
Without(f, K) == [k \in DOMAIN f \ K |-> f[k]]

\* The orders in which ranging over a map with key set S can visit the keys.
Orderings(S) == {s \in [1..Cardinality(S) -> S] :
                    \A i, j \in 1..Cardinality(S) : i # j => s[i] # s[j]}

\* ------------------------------------------------------------- user.go
\* sha256.Sum256: one-way and, for the passwords used here, injective.
getPasswordHash(pass) == <<"sha256", pass>>

\* A nil map[RoleID]*Role: the Roles field of a User built without it.
NilRoles == [isNil |-> TRUE, m |-> <<>>]

\* ------------------------------------------------------------- construction
NewInMemoryServerErr(ttl) == IF ttl < MinTokenExpireSec THEN ErrInvalidConfig ELSE Nil

InitE(E) ==
    /\ \E ttl \in E.ttls :
          /\ NewInMemoryServerErr(ttl) = Nil
          /\ cfg = [TokenExpireSec |-> ttl]
    /\ conv \in {MinInt32, MaxInt32}
    /\ users = <<>> /\ uname = <<>> /\ uobj = <<>>
    /\ roles = <<>> /\ rname = <<>>
    /\ tokens = <<>>
    /\ nextUser = 1 /\ nextRole = 1
    /\ tokenQ = <<>>
    /\ startedOn = [set |-> FALSE, t |-> 0]
    /\ now = 0
    /\ issued = <<>> /\ invalidated = {} /\ evicted = {} /\ moved = {}
    /\ granted = <<>> /\ uidLog = <<>> /\ ridLog = <<>>

\* ------------------------------------------------------------- identity store
\* CreateUserRet without the look-up of the name.
CreateUserRet_NoNameCheck(name, password) == [err |-> Nil, id |-> nextUser]

CreateUserRet(name, password) ==
    IF name \in DOMAIN uname
    THEN [err |-> ErrUserExists, id |-> 0]
    ELSE [err |-> Nil, id |-> nextUser]

\* NextUserAfterCreate without the increment.
NextUserAfterCreate_Reuse(n) == n

\* s.nextUser++
NextUserAfterCreate(n) == n + 1

CreateUser(name, password) ==
    IF CreateUserRet(name, password).err # Nil
    THEN UNCHANGED vars
    ELSE /\ nextUser <= MaxUserIDs
         /\ LET newUser == [ID |-> nextUser, Name |-> name,
                            Secret |-> getPasswordHash(password), Roles |-> NilRoles]
            IN /\ uobj' = (nextUser :> newUser) @@ uobj
               /\ users' = (nextUser :> nextUser) @@ users
               /\ uname' = (name :> nextUser) @@ uname
               /\ nextUser' = NextUserAfterCreate(nextUser)
               /\ uidLog' = Append(uidLog, newUser.ID)
               /\ granted' = (nextUser :> {}) @@ granted
         /\ UNCHANGED <<cfg, conv, roles, rname, tokens, nextRole, tokenQ, startedOn,
                        now, issued, invalidated, evicted, moved, ridLog>>

DeleteUserErr(user) == IF user \in DOMAIN users THEN Nil ELSE ErrUserNotExist

\* The User objects still referenced once the two maps are us and un.
LiveUsers(us, un) == {us[k] : k \in DOMAIN us} \cup {un[k] : k \in DOMAIN un}

\* DeleteUser without the delete from the name index.
DeleteUser_KeepsName(user) ==
    IF DeleteUserErr(user) # Nil
    THEN UNCHANGED vars
    ELSE /\ users' = Without(users, {user})
         /\ UNCHANGED <<cfg, conv, uname, uobj, roles, rname, tokens, nextUser, nextRole,
                        tokenQ, startedOn, now, history>>

DeleteUser(user) ==
    IF DeleteUserErr(user) # Nil
    THEN UNCHANGED vars
    ELSE LET userObj == uobj[users[user]]
             us == Without(users, {user})
             un == Without(uname, {userObj.Name})
         IN /\ users' = us
            /\ uname' = un
            /\ uobj' = [p \in LiveUsers(us, un) |-> uobj[p]]
            /\ granted' = [p \in LiveUsers(us, un) |-> granted[p]]
            /\ UNCHANGED <<cfg, conv, roles, rname, tokens, nextUser, nextRole, tokenQ,
                           startedOn, now, issued, invalidated, evicted, moved,
                           uidLog, ridLog>>

CreateRoleRet(name) ==
    IF name \in DOMAIN rname
    THEN [err |-> ErrRoleExists, id |-> 0]
    ELSE [err |-> Nil, id |-> nextRole]

\* s.nextRole++
NextRoleAfterCreate(n) == n + 1

CreateRole(name) ==
    IF CreateRoleRet(name).err # Nil
    THEN UNCHANGED vars
    ELSE /\ nextRole <= MaxRoleIDs
         /\ LET newRole == [ID |-> nextRole, Name |-> name]
            IN /\ roles' = (nextRole :> newRole) @@ roles
               /\ rname' = (name :> newRole) @@ rname
               /\ nextRole' = NextRoleAfterCreate(nextRole)
               /\ ridLog' = Append(ridLog, newRole.ID)
         /\ UNCHANGED <<cfg, conv, users, uname, uobj, tokens, nextUser, tokenQ,
                        startedOn, now, issued, invalidated, evicted, moved, granted,
                        uidLog>>

DeleteRoleErr(role) == IF role \in DOMAIN roles THEN Nil ELSE ErrRoleNotExist

DeleteRole(role) ==
    IF DeleteRoleErr(role) # Nil
    THEN UNCHANGED vars
    ELSE LET roleObj == roles[role]
         IN /\ roles' = Without(roles, {role})
            /\ rname' = Without(rname, {roleObj.Name})
            /\ UNCHANGED <<cfg, conv, users, uname, uobj, tokens, nextUser, nextRole,
                           tokenQ, startedOn, now, history>>

\* AddRoleToUserErr with the role looked up before the user.
AddRoleToUserErr_RoleFirst(user, role) ==
    IF role \notin DOMAIN roles THEN ErrRoleNotExist
    ELSE IF user \notin DOMAIN users THEN ErrUserNotExist
    ELSE IF uobj[users[user]].Roles.isNil THEN Panic
    ELSE Nil

\* userObj.Roles[roleObj.ID] = roleObj panics when the map is nil.
AddRoleToUserErr(user, role) ==
    IF user \notin DOMAIN users THEN ErrUserNotExist
    ELSE IF role \notin DOMAIN roles THEN ErrRoleNotExist
    ELSE IF uobj[users[user]].Roles.isNil THEN Panic
    ELSE Nil

AddRoleToUser(user, role) ==
    IF AddRoleToUserErr(user, role) \in {ErrUserNotExist, ErrRoleNotExist}
    THEN UNCHANGED vars
    ELSE LET p == users[user]
             roleObj == roles[role]
         IN /\ granted' = [granted EXCEPT ![p] = @ \cup {roleObj.ID}]
            /\ IF AddRoleToUserErr(user, role) = Panic
               THEN UNCHANGED uobj
               ELSE uobj' = [uobj EXCEPT ![p].Roles.m =
                                (roleObj.ID :> roleObj) @@ Without(@, {roleObj.ID})]
            /\ UNCHANGED <<cfg, conv, users, uname, roles, rname, tokens, nextUser,
                           nextRole, tokenQ, startedOn, now, issued, invalidated,
                           evicted, moved, uidLog, ridLog>>

\* ------------------------------------------------------------- epoch pruner
\* int32(elapsed.Seconds()+1) / 3600.  With startedOn the zero time.Time,
\* now.Sub(startedOn) saturates at the maximal Duration (about 9.2e9 s), which
\* no int32 holds: the conversion then yields what the build yields (conv).
currentEpochInHour ==
    LET secs == IF startedOn.set THEN now - startedOn.t + 1 ELSE conv
    IN TruncDiv(secs, SecondsPerHour)

\* ExpireEpochs without the extra window.
ExpireEpochs_NoExtraWindow(ttl) == TruncDiv(ttl, SecondsPerHour)

\* expire = s.cfg.TokenExpireSec/3600 + 1
ExpireEpochs(ttl) == TruncDiv(ttl, SecondsPerHour) + 1

\* The index (from 0) at which the loop of pruneTokens stops.
PruneIndex(tq, ep, expire) ==
    Min({i \in 0..(Len(tq) - 1) : ep - tq[i + 1].ServerEpoch <= expire} \cup {Len(tq)})

BucketValues(b) == {b.Tokens[k].Value : k \in 1..Len(b.Tokens)}

\* pruneTokens dropping the buckets without deleting their tokens from the table.
pruneTokens_KeepsTable(tq, toks) ==
    LET ep == currentEpochInHour
        expire == ExpireEpochs(cfg.TokenExpireSec)
        i == PruneIndex(tq, ep, expire)
    IN [tokenQ |-> SubSeq(tq, i + 1, Len(tq)),
        tokens |-> toks,
        pruned |-> {}]

\* pruneTokens on the queue tq and the lookup table toks: the queue and the
\* table it leaves, and the keys it deleted from the table.
pruneTokens(tq, toks) ==
    LET ep == currentEpochInHour
        expire == ExpireEpochs(cfg.TokenExpireSec)
        i == PruneIndex(tq, ep, expire)
        gone == UNION {BucketValues(tq[j]) : j \in 1..i}
    IN [tokenQ |-> SubSeq(tq, i + 1, Len(tq)),
        tokens |-> Without(toks, gone),
        pruned |-> gone \cap DOMAIN toks]

\* addToTokenQueue opening a bucket only when the queue is empty.
addToTokenQueue_NoNewBucket(t) ==
    LET ep == currentEpochInHour
        p == IF Len(tokenQ) = 0
             THEN pruneTokens(Append(tokenQ, [ServerEpoch |-> ep, Tokens |-> <<>>]), tokens)
             ELSE [tokenQ |-> tokenQ, tokens |-> tokens, pruned |-> {}]
    IN [tokenQ |-> [p.tokenQ EXCEPT ![Len(p.tokenQ)].Tokens = Append(@, t)],
        tokens |-> p.tokens,
        pruned |-> p.pruned]

\* addToTokenQueue opening a bucket at every call.
addToTokenQueue_AlwaysAppends(t) ==
    LET ep == currentEpochInHour
        p == pruneTokens(Append(tokenQ, [ServerEpoch |-> ep, Tokens |-> <<>>]), tokens)
    IN [tokenQ |-> [p.tokenQ EXCEPT ![Len(p.tokenQ)].Tokens = Append(@, t)],
        tokens |-> p.tokens,
        pruned |-> p.pruned]

addToTokenQueue(t) ==
    LET ep == currentEpochInHour
        l == Len(tokenQ)
        p == IF l = 0 \/ tokenQ[l].ServerEpoch < ep
             THEN pruneTokens(Append(tokenQ, [ServerEpoch |-> ep, Tokens |-> <<>>]), tokens)
             ELSE [tokenQ |-> tokenQ, tokens |-> tokens, pruned |-> {}]
    IN [tokenQ |-> [p.tokenQ EXCEPT ![Len(p.tokenQ)].Tokens = Append(@, t)],
        tokens |-> p.tokens,
        pruned |-> p.pruned]

\* ------------------------------------------------------------- token authority
\* The token newToken mints for the user u: crypto/rand values are taken not
\* to repeat, so the value is the token's number in the order of issue.
newToken(u) == [Value |-> Len(issued) + 1, User |-> u.ID,
                Expires |-> now + cfg.TokenExpireSec]

\* AuthenticateRet telling an unknown user from a wrong password.
AuthenticateRet_TellsUnknownUser(username, password, randOK) ==
    IF username \notin DOMAIN uname
    THEN [err |-> ErrUserNotExist, tok |-> NoToken]
    ELSE IF getPasswordHash(password) # uobj[uname[username]].Secret
    THEN [err |-> ErrInvalidAuth, tok |-> NoToken]
    ELSE IF ~randOK
    THEN [err |-> ErrInternal, tok |-> NoToken]
    ELSE [err |-> Nil, tok |-> Len(issued) + 1]

\* randOK: whether rand.Read succeeds.
AuthenticateRet(username, password, randOK) ==
    IF username \notin DOMAIN uname
    THEN [err |-> ErrInvalidAuth, tok |-> NoToken]
    ELSE IF getPasswordHash(password) # uobj[uname[username]].Secret
    THEN [err |-> ErrInvalidAuth, tok |-> NoToken]
    ELSE IF ~randOK
    THEN [err |-> ErrInternal, tok |-> NoToken]
    ELSE [err |-> Nil, tok |-> newToken(uobj[uname[username]]).Value]

Authenticate(username, password, randOK, maxTokens) ==
    IF AuthenticateRet(username, password, randOK).err # Nil
    THEN UNCHANGED vars
    ELSE /\ Len(issued) < maxTokens
         /\ LET token == newToken(uobj[uname[username]])
                q == addToTokenQueue(token)
            IN /\ tokenQ' = q.tokenQ
               /\ tokens' = (token.Value :> token) @@ q.tokens
               /\ issued' = Append(issued, [Value |-> token.Value, User |-> token.User,
                                            Expires |-> token.Expires,
                                            asked |-> granted[uname[username]],
                                            epoch |-> currentEpochInHour])
               /\ evicted' = evicted \cup q.pruned
         /\ UNCHANGED <<cfg, conv, users, uname, uobj, roles, rname, nextUser, nextRole,
                        startedOn, now, invalidated, moved, granted, uidLog, ridLog>>

\* Invalidate without the delete.
Invalidate_Noop(token) ==
    /\ invalidated' = invalidated \cup ({token} \cap (1..Len(issued)))
    /\ UNCHANGED <<server, now, issued, evicted, moved, granted, uidLog, ridLog>>

Invalidate(token) ==
    /\ tokens' = Without(tokens, {token})
    /\ invalidated' = invalidated \cup ({token} \cap (1..Len(issued)))
    /\ UNCHANGED <<cfg, conv, users, uname, uobj, roles, rname, nextUser, nextRole,
                   tokenQ, startedOn, now, issued, evicted, moved, granted, uidLog,
                   ridLog>>

\* Expired with the expiry instant itself counted as expired.
Expired_AtExpiry(tokenObj) == now >= tokenObj.Expires

\* now.After(tokenObj.Expires)
Expired(tokenObj) == now > tokenObj.Expires

\* verifyToken leaving the token of a deleted user in the table.
verifyToken_KeepsOrphan(t) ==
    IF t \notin DOMAIN tokens
    THEN [err |-> ErrInvalidToken, user |-> 0, tokens |-> tokens]
    ELSE IF now > tokens[t].Expires
    THEN [err |-> ErrInvalidToken, user |-> 0, tokens |-> Without(tokens, {t})]
    ELSE IF tokens[t].User \notin DOMAIN users
    THEN [err |-> ErrInvalidToken, user |-> 0, tokens |-> tokens]
    ELSE [err |-> Nil, user |-> users[tokens[t].User], tokens |-> tokens]

\* verifyToken: the error, the pointer to the user, and the lookup table it leaves.
verifyToken(t) ==
    IF t \notin DOMAIN tokens
    THEN [err |-> ErrInvalidToken, user |-> 0, tokens |-> tokens]
    ELSE IF Expired(tokens[t])
    THEN [err |-> ErrInvalidToken, user |-> 0, tokens |-> Without(tokens, {t})]
    ELSE IF tokens[t].User \notin DOMAIN users
    THEN [err |-> ErrInvalidToken, user |-> 0, tokens |-> Without(tokens, {t})]
    ELSE [err |-> Nil, user |-> users[tokens[t].User], tokens |-> tokens]

CheckRoleRet(token, role) ==
    LET v == verifyToken(token)
    IN IF v.err # Nil
       THEN [err |-> v.err, belongs |-> FALSE]
       ELSE [err |-> Nil, belongs |-> role \in DOMAIN uobj[v.user].Roles.m]

\* CheckRole cleaning up, after the verification, the buckets that reference
\* no token of the table any more.
CheckRole_DropsEmptyBuckets(token, role) ==
    /\ tokens' = verifyToken(token).tokens
    /\ tokenQ' = SelectSeq(tokenQ, LAMBDA b : BucketValues(b) \cap DOMAIN tokens' # {})
    /\ UNCHANGED <<cfg, conv, users, uname, uobj, roles, rname, nextUser, nextRole,
                   startedOn, now, history>>

CheckRole(token, role) ==
    /\ tokens' = verifyToken(token).tokens
    /\ UNCHANGED <<cfg, conv, users, uname, uobj, roles, rname, nextUser, nextRole,
                   tokenQ, startedOn, now, history>>

\* What AllRoles can return: the order of the list is that of a range over a map.
AllRolesRets(token) ==
    LET v == verifyToken(token)
    IN IF v.err # Nil
       THEN {[err |-> v.err, list |-> <<>>]}
       ELSE {[err |-> Nil, list |-> roleList] :
                roleList \in Orderings(DOMAIN uobj[v.user].Roles.m)}

AllRoles(token) ==
    /\ tokens' = verifyToken(token).tokens
    /\ UNCHANGED <<cfg, conv, users, uname, uobj, roles, rname, nextUser, nextRole,
                   tokenQ, startedOn, now, history>>

\* ------------------------------------------------------------- environment
\* The wall clock moves forward.
Tick(E) ==
    /\ \E t \in E.instants \cup (IF E.instants = {} THEN InstantsFor(cfg.TokenExpireSec) ELSE {}) :
          t > now /\ now' = t
    /\ UNCHANGED <<server, history>>

\* TestPruneTokens writes the field: svr.startedOn = time.Now().Add(-d).
SetStartedOn(d) ==
    /\ ~startedOn.set
    /\ startedOn' = [set |-> TRUE, t |-> now - d]
    /\ moved' = 1..Len(issued)
    /\ UNCHANGED <<cfg, conv, users, uname, uobj, roles, rname, tokens, nextUser,
                   nextRole, tokenQ, now, issued, invalidated, evicted, granted,
                   uidLog, ridLog>>

\* The arguments the calls are made with: the ids handed out so far and the
\* next one (not handed out yet), the token values issued so far and "".
UserArgs == 1..nextUser
RoleArgs == 1..nextRole
TokenArgs == 0..Len(issued)

DoCreateUser(E) == \E n \in E.names, p \in E.pws : CreateUser(n, p)
DoDeleteUser == \E u \in UserArgs : DeleteUser(u)
DoCreateRole(E) == \E n \in E.rnames : CreateRole(n)
DoDeleteRole == \E r \in RoleArgs : DeleteRole(r)
DoAddRoleToUser == \E u \in UserArgs, r \in RoleArgs : AddRoleToUser(u, r)
DoAuthenticate(E) ==
    \E n \in E.names, p \in E.pws, randOK \in BOOLEAN :
        Authenticate(n, p, randOK, E.maxTokens)
DoInvalidate == \E t \in TokenArgs : Invalidate(t)
DoCheckRole == \E t \in TokenArgs, r \in RoleArgs : CheckRole(t, r)
DoAllRoles == \E t \in TokenArgs : AllRoles(t)
DoSetStartedOn == \E d \in Offsets : SetStartedOn(d)

Init == InitE(EnvIdentity)

Next ==
    \/ DoCreateUser(EnvIdentity)
    \/ DoDeleteUser
    \/ DoCreateRole(EnvIdentity)
    \/ DoDeleteRole
    \/ DoAddRoleToUser
    \/ DoAuthenticate(EnvIdentity)
    \/ DoInvalidate
    \/ DoCheckRole
    \/ DoAllRoles
    \/ Tick(EnvIdentity)

\* The server as NewInMemoryServer builds it, driven through its public API.
Spec == Init /\ [][Next]_vars

InitT == InitE(EnvTokens)

\* The role operations touch neither the tokens nor the users' indices: the
\* token life cycle is explored without them.
NextT ==
    \/ DoCreateUser(EnvTokens)
    \/ DoDeleteUser
    \/ DoAuthenticate(EnvTokens)
    \/ DoInvalidate
    \/ DoCheckRole
    \/ DoAllRoles
    \/ Tick(EnvTokens)
    \/ DoSetStartedOn

\* The token life cycle, with the write to startedOn that the package's test makes.
SpecT == InitT /\ [][NextT]_vars

\* ================================================================ claims
\* The token v was not revoked, its user was not deleted, and startedOn was
\* not rewritten since v was issued.
Undisturbed(v) ==
    /\ v \notin invalidated
    /\ issued[v].User \in DOMAIN users
    /\ v \notin moved

\* C1: a token returned by Authenticate, not passed to Invalidate and whose
\* user was not deleted, makes CheckRole and AllRoles succeed at every instant
\* up to its expiry (issue time + TTL) and fail with ErrInvalidToken at every
\* instant after it, whatever happened in between.
C1_ValidUntilExpiry ==
    \A v \in 1..Len(issued) :
        Undisturbed(v) =>
            \A r \in RoleArgs :
                IF now <= issued[v].Expires
                THEN /\ CheckRoleRet(v, r).err = Nil
                     /\ \A a \in AllRolesRets(v) : a.err = Nil
                ELSE /\ CheckRoleRet(v, r).err = ErrInvalidToken
                     /\ \A a \in AllRolesRets(v) : a.err = ErrInvalidToken

\* An undisturbed token verifies at its very last instant, after a pruning.
C1_Witness ==
    \E v \in 1..Len(issued) :
        /\ Undisturbed(v)
        /\ now = issued[v].Expires
        /\ CheckRoleRet(v, 1).err = Nil
        /\ evicted # {}

\* An undisturbed token no longer verifies one second after its expiry.
C1_WitnessAfter ==
    \E v \in 1..Len(issued) :
        /\ Undisturbed(v)
        /\ now = issued[v].Expires + 1
        /\ CheckRoleRet(v, 1).err = ErrInvalidToken

\* C2: with a clock that only moves forward (startedOn not rewritten since the
\* token was issued), every token that the pruning inside Authenticate deletes
\* from the lookup table is already past its expiry instant.
C2_EvictsOnlyExpired ==
    [][ \A v \in DOMAIN tokens \ DOMAIN tokens' :
            (Len(issued') > Len(issued) /\ v \notin moved) => now > tokens[v].Expires ]_vars

\* A token issued in the last second of its window was evicted from the table.
C2_Witness ==
    \E v \in evicted \ moved :
        /\ startedOn.set
        /\ (issued[v].Expires - cfg.TokenExpireSec) - startedOn.t = SecondsPerHour - 2

Ceil(a, b) == (a + b - 1) \div b

\* C3: when Authenticate issues a token in an epoch later than the newest
\* bucket's, exactly the buckets with currentEpoch - epoch > ceil(TTL / 3600)
\* are evicted and the tokens they reference leave the table; with TTL = 1800,
\* a token issued 121 minutes or more after all the earlier ones is the only
\* one left in the table.
C3_EvictsExactlyPastCeil ==
    [][ Len(issued') = Len(issued) + 1 =>
          LET ep == currentEpochInHour
              n == Len(tokenQ)
              keep == {i \in 1..n : ep - tokenQ[i].ServerEpoch <= Ceil(cfg.TokenExpireSec, SecondsPerHour)}
          IN /\ (n > 0 /\ tokenQ[n].ServerEpoch < ep) =>
                  /\ {tokenQ'[i].ServerEpoch : i \in 1..Len(tokenQ')}
                        = {tokenQ[i].ServerEpoch : i \in keep} \cup {ep}
                  /\ \A i \in (1..n) \ keep : BucketValues(tokenQ[i]) \cap DOMAIN tokens' = {}
             /\ ( /\ cfg.TokenExpireSec = 1800
                  /\ Len(issued) > 0
                  /\ \A v \in 1..Len(issued) :
                        now - (issued[v].Expires - cfg.TokenExpireSec) >= 7260 )
                  => Cardinality(DOMAIN tokens') = 1 ]_vars

\* C4: DeleteUser removes no token from the lookup table; the verification of
\* a token whose user was deleted returns ErrInvalidToken and removes exactly
\* that token from the table.
C4_LazyInvalidation ==
    /\ [](\A t \in DOMAIN tokens :
            tokens[t].User \notin DOMAIN users =>
               /\ verifyToken(t).tokens = Without(tokens, {t})
               /\ Cardinality(DOMAIN verifyToken(t).tokens) = Cardinality(DOMAIN tokens) - 1
               /\ \A a \in AllRolesRets(t) : a.err = ErrInvalidToken
               /\ \A r \in RoleArgs : CheckRoleRet(t, r).err = ErrInvalidToken)
    /\ [][ /\ \A u \in UserArgs : DeleteUser(u) => tokens' = tokens
            /\ \A t \in DOMAIN tokens :
                  tokens[t].User \notin DOMAIN users =>
                     /\ AllRoles(t) => DOMAIN tokens' = DOMAIN tokens \ {t}
                     /\ \A r \in RoleArgs :
                           CheckRole(t, r) => DOMAIN tokens' = DOMAIN tokens \ {t} ]_vars

\* A token of a deleted user has left the table though it was neither
\* revoked, evicted nor expired, while another token of that user is still in it.
C4_Witness ==
    \E v, w \in 1..Len(issued) :
        /\ v \notin DOMAIN tokens
        /\ v \notin invalidated /\ v \notin evicted
        /\ now <= issued[v].Expires
        /\ issued[v].User \notin DOMAIN users
        /\ w \in DOMAIN tokens /\ issued[w].User = issued[v].User

BadCredentials(n, p) ==
    \/ n \notin DOMAIN uname
    \/ getPasswordHash(p) # uobj[uname[n]].Secret

\* C5: Authenticate with an unknown username, or with a known username and a
\* wrong password, returns ErrInvalidAuth and the empty token, and changes
\* nothing.
C5_InvalidAuth ==
    /\ [](\A n \in EnvIdentity.names, p \in EnvIdentity.pws, randOK \in BOOLEAN :
            BadCredentials(n, p) =>
                AuthenticateRet(n, p, randOK) = [err |-> ErrInvalidAuth, tok |-> NoToken])
    /\ [][ \A n \in EnvIdentity.names, p \in EnvIdentity.pws, randOK \in BOOLEAN :
                (BadCredentials(n, p) /\ Authenticate(n, p, randOK, MaxLogins))
                    => UNCHANGED vars ]_vars

\* There is a user (with a wrong password to give), a name no user has, and
\* a token of an Authenticate that succeeded.
C5_Witness ==
    /\ \E n \in DOMAIN uname, p \in EnvIdentity.pws : BadCredentials(n, p)
    /\ \E n \in EnvIdentity.names : n \notin DOMAIN uname
    /\ tokens # <<>>

\* C6: CreateUser with a name an active user holds returns ErrUserExists and
\* changes nothing: the user, both indices and nextUser stay as they are.
C6_UserExists ==
    /\ [](\A n \in DOMAIN uname, p \in EnvIdentity.pws :
            CreateUserRet(n, p) = [err |-> ErrUserExists, id |-> 0])
    /\ [][ \A n \in DOMAIN uname, p \in EnvIdentity.pws :
                CreateUser(n, p) => UNCHANGED <<users, uname, uobj, nextUser>> ]_vars

\* A name is taken while ids are left to hand out.
C6_Witness ==
    /\ uname # <<>>
    /\ nextUser <= MaxUserIDs

StrictlyIncreasingFrom1(log) ==
    /\ Len(log) > 0 => log[1] = 1
    /\ \A i, j \in 1..Len(log) : i < j => log[i] < log[j]

\* C7: the ids successful CreateUser calls return start at 1 and strictly
\* increase, whatever deletions happen in between; likewise for CreateRole.
C7_FreshIds ==
    /\ StrictlyIncreasingFrom1(uidLog)
    /\ StrictlyIncreasingFrom1(ridLog)

\* Two users were created, the first deleted before the second was created
\* under the same name, and two roles likewise.
C7_Witness ==
    /\ Len(uidLog) = 2 /\ DOMAIN users = {2}
    /\ Len(ridLog) = 2 /\ DOMAIN roles = {2}

\* C8: CreateUser with an empty password returns ErrWeakPassword and creates
\* no user.
C8_WeakPassword ==
    [][ \A n \in EnvIdentity.names :
            CreateUser(n, "") =>
                /\ CreateUserRet(n, "").err = ErrWeakPassword
                /\ UNCHANGED <<users, uname, uobj, nextUser>> ]_vars

\* C9: AddRoleToUser, for an existing user and an existing role, returns no
\* error, the first time and again, and leaves the role in the user's set.
C9_AddRoleIdempotent ==
    [][ \A u \in DOMAIN users, r \in DOMAIN roles :
            AddRoleToUser(u, r) =>
                /\ AddRoleToUserErr(u, r) = Nil
                /\ AddRoleToUserErr(u, r)' = Nil
                /\ DOMAIN uobj'[users[u]].Roles.m = DOMAIN uobj[users[u]].Roles.m \cup {r} ]_vars

Referenced(tq) == UNION {BucketValues(tq[i]) : i \in 1..Len(tq)}

\* C11: Invalidate can always be called, removes the token from the lookup
\* table whether or not it is there, changes nothing of the server when it
\* is not, and leaves the buckets as they are; a token passed to Invalidate
\* is rejected with ErrInvalidToken by CheckRole and AllRoles ever after.
C11_InvalidateRevokes ==
    /\ [](/\ \A t \in TokenArgs : ENABLED Invalidate(t)
          /\ \A v \in invalidated :
                /\ v \notin DOMAIN tokens
                /\ \A a \in AllRolesRets(v) : a.err = ErrInvalidToken
                /\ \A r \in RoleArgs : CheckRoleRet(v, r).err = ErrInvalidToken)
    /\ [][ \A t \in TokenArgs :
              Invalidate(t) =>
                 /\ tokens' = Without(tokens, {t})
                 /\ tokenQ' = tokenQ
                 /\ t \notin DOMAIN tokens => UNCHANGED server ]_vars

\* A token that would still verify (unexpired, user alive) was revoked: it is
\* out of the table and its bucket still references it.
C11_Witness ==
    \E v \in invalidated :
        /\ now <= issued[v].Expires
        /\ issued[v].User \in DOMAIN users
        /\ v \notin DOMAIN tokens
        /\ v \in Referenced(tokenQ)

\* C12: CheckRole with a token that verifies returns ErrRoleNotExist for a
\* role id that is not in the role store and, for one that is, no error and
\* whether the user holds the role.
C12_CheckRoleUnknownRole ==
    \A v \in DOMAIN tokens, r \in RoleArgs :
        verifyToken(v).err = Nil =>
            IF r \notin DOMAIN roles
            THEN CheckRoleRet(v, r).err = ErrRoleNotExist
            ELSE CheckRoleRet(v, r) =
                    [err |-> Nil,
                     belongs |-> r \in DOMAIN uobj[verifyToken(v).user].Roles.m]

C14_NoRuntimeFault ==
    /\ \A n \in EnvIdentity.names, p \in EnvIdentity.pws :
          /\ CreateUserRet(n, p).err \in {Nil, ErrWeakPassword, ErrUserExists}
          /\ \A randOK \in BOOLEAN :
                AuthenticateRet(n, p, randOK).err \in {Nil, ErrInvalidAuth, ErrInternal}
    /\ \A n \in EnvIdentity.rnames : CreateRoleRet(n).err \in {Nil, ErrRoleExists}
    /\ \A u \in UserArgs : DeleteUserErr(u) \in {Nil, ErrUserNotExist}
    /\ \A r \in RoleArgs : DeleteRoleErr(r) \in {Nil, ErrRoleNotExist}
    /\ \A u \in UserArgs, r \in RoleArgs :
          AddRoleToUserErr(u, r) \in {Nil, ErrUserNotExist, ErrRoleNotExist}
    /\ \A t \in TokenArgs :
          /\ ENABLED Invalidate(t)
          /\ \A r \in RoleArgs : CheckRoleRet(t, r).err \in {Nil, ErrInvalidToken, ErrRoleNotExist}
          /\ \A a \in AllRolesRets(t) : a.err \in {Nil, ErrInvalidToken}

\* C15: AddRoleToUser returns ErrUserNotExist when the user id is unknown
\* (whatever the role id) and ErrRoleNotExist when the user exists and the
\* role id is unknown, and changes nothing in either case.
C15_AddRoleNotFound ==
    /\ [](\A u \in UserArgs, r \in RoleArgs :
            /\ u \notin DOMAIN users => AddRoleToUserErr(u, r) = ErrUserNotExist
            /\ (u \in DOMAIN users /\ r \notin DOMAIN roles) =>
                   AddRoleToUserErr(u, r) = ErrRoleNotExist)
    /\ [][ \A u \in UserArgs, r \in RoleArgs :
              (AddRoleToUser(u, r) /\ (u \notin DOMAIN users \/ r \notin DOMAIN roles))
                  => UNCHANGED vars ]_vars

\* There are a user with an unknown role id to ask for, and an unknown user
\* id with an existing role, and with an unknown one.
C15_Witness ==
    /\ \E u \in DOMAIN users, r \in RoleArgs : r \notin DOMAIN roles
    /\ \E u \in UserArgs, r \in DOMAIN roles : u \notin DOMAIN users
    /\ \E u \in UserArgs, r \in RoleArgs : u \notin DOMAIN users /\ r \notin DOMAIN roles

\* The uptime, in seconds, at which the token with the fields tokenObj was issued.
IssuedAt(tokenObj) == tokenObj.Expires - cfg.TokenExpireSec

\* C16: on a server built by NewInMemoryServer, the epoch of every bucket is
\* floor(t / 3600) + 1 for the uptime t at which each of its tokens was
\* issued, so a token issued during the first hour is in a bucket of epoch 1.
C16_EpochFromOne ==
    \A i \in 1..Len(tokenQ) :
        \A k \in 1..Len(tokenQ[i].Tokens) :
            tokenQ[i].ServerEpoch =
                (IssuedAt(tokenQ[i].Tokens[k]) \div SecondsPerHour) + 1

\* C17: in every reachable state the buckets of tokenQ are in strictly
\* increasing order of ServerEpoch.
C17_BucketsIncreasing ==
    \A i, j \in 1..Len(tokenQ) :
        i < j => tokenQ[i].ServerEpoch < tokenQ[j].ServerEpoch

\* Two buckets, of tokens issued in different hour windows on a clock that
\* only moved forward.
C17_Witness ==
    /\ Len(tokenQ) = 2
    /\ Referenced(tokenQ) \cap moved = {}

\* Where the buckets of tq reference the token value v: <<bucket, index>>.
Positions(tq, v) ==
    {ik \in (1..Len(tq)) \X (1..MaxTokens + 1) :
        ik[2] <= Len(tq[ik[1]].Tokens) /\ tq[ik[1]].Tokens[ik[2]].Value = v}

\* C18: a token is referenced by exactly one bucket from its issue until
\* that bucket is evicted, never by two, and (on a clock that only moved
\* forward while the bucket existed) the bucket's epoch is the epoch that was
\* current when the token was issued.
C18_OneBucketPerToken ==
    /\ [](\A v \in 1..Len(issued) :
            /\ Cardinality(Positions(tokenQ, v)) <= 1
            /\ \A ik \in Positions(tokenQ, v) :
                  BucketValues(tokenQ[ik[1]]) \cap moved = {} =>
                      tokenQ[ik[1]].ServerEpoch = issued[v].epoch)
    /\ [][ (\A v \in 1..Len(issued') :
                v > Len(issued) => Cardinality(Positions(tokenQ', v)) = 1)
            /\
            (\A w \in Referenced(tokenQ) \ Referenced(tokenQ') :
                \A ik \in Positions(tokenQ, w) :
                    \A j \in 1..Len(tokenQ') :
                        tokenQ'[j].ServerEpoch # tokenQ[ik[1]].ServerEpoch) ]_vars

\* Two tokens issued at different instants of one hour window share a bucket,
\* on a clock that only moved forward.
C18_Witness ==
    \E v, w \in 1..Len(issued) :
        /\ {v, w} \cap moved = {}
        /\ startedOn.set
        /\ issued[v].Expires < issued[w].Expires
        /\ \E i \in 1..Len(tokenQ) : {v, w} \subseteq BucketValues(tokenQ[i])

\* C19: every token in the lookup table is referenced by a bucket of tokenQ,
\* and a token leaves the table only in a CheckRole or AllRoles on it, in an
\* Invalidate of it, or in an Authenticate that evicts its whole bucket.
C19_ResidentIsReferenced ==
    /\ [](DOMAIN tokens \subseteq Referenced(tokenQ))
    /\ [][ \A v \in DOMAIN tokens \ DOMAIN tokens' :
              \/ AllRoles(v)
              \/ \E r \in RoleArgs : CheckRole(v, r)
              \/ Invalidate(v)
              \/ /\ Len(issued') = Len(issued) + 1
                 /\ v \notin Referenced(tokenQ') ]_vars

\* A token is in the table and in a bucket, after an Authenticate evicted the
\* bucket of an earlier token together with that token.
C19_Witness ==
    /\ tokens # <<>>
    /\ DOMAIN tokens \subseteq Referenced(tokenQ)
    /\ \E v \in evicted : v \notin Referenced(tokenQ)

Terminal(v) ==
    \/ now > issued[v].Expires
    \/ v \in invalidated
    \/ issued[v].User \notin DOMAIN users
    \/ v \in evicted

\* C21: a token in a terminal state is rejected with ErrInvalidToken by
\* CheckRole and AllRoles, and no operation takes a token out of the terminal
\* states again, not even the creation of a user under the name of the
\* deleted one.
C21_TerminalAbsorbing ==
    /\ [](\A v \in 1..Len(issued) :
            Terminal(v) =>
               /\ \A a \in AllRolesRets(v) : a.err = ErrInvalidToken
               /\ \A r \in RoleArgs : CheckRoleRet(v, r).err = ErrInvalidToken)
    /\ [][ \A v \in 1..Len(issued) : Terminal(v) => Terminal(v)' ]_vars

\* The user of a token was deleted and a user was created again under the
\* same name, while the token, unexpired and never verified since, is still
\* in the lookup table.
C21_Witness ==
    \E v \in DOMAIN tokens :
        /\ now <= issued[v].Expires
        /\ issued[v].User \notin DOMAIN users
        /\ uname # <<>>

\* The values of the map f.
Range(f) == {f[k] : k \in DOMAIN f}

\* C22: in every reachable state users and uname hold the same User objects,
\* each under its own id and its own name and under no other key, so no two
\* active users share a name; likewise roles and rname for the roles.
C22_IndicesAgree ==
    /\ Range(users) = Range(uname)
    /\ Range(users) = DOMAIN uobj
    /\ \A k \in DOMAIN users : uobj[users[k]].ID = k
    /\ \A n \in DOMAIN uname : uobj[uname[n]].Name = n
    /\ \A k, l \in DOMAIN users : uobj[users[k]].Name = uobj[users[l]].Name => k = l
    /\ Range(roles) = Range(rname)
    /\ \A k \in DOMAIN roles : roles[k].ID = k
    /\ \A n \in DOMAIN rname : rname[n].Name = n
    /\ \A k, l \in DOMAIN roles : roles[k].Name = roles[l].Name => k = l

\* Two users are active at once, and a role is active under a name that a
\* deleted role held before it.
C22_Witness ==
    /\ Cardinality(DOMAIN users) = 2
    /\ Cardinality(DOMAIN uname) = 2
    /\ DOMAIN roles = {2}
    /\ DOMAIN rname = {"r"}

====
